---- MODULE Spec2Model ----
(***************************************************************************)
(* Model of the project-consultant single page application (src/index.tsx):*)
(* the App component's state (project, chatHistory, isLoading), the        *)
(* browser's localStorage under the keys 'project' and 'chatHistory', the  *)
(* gateway calls awaiting their response, and the handlers of App.         *)
(* A user event is one action: the handler up to its await, the render and *)
(* the persistence effects.  A continuation after an await, and the effects*)
(* of the first render, only queue their state updates; the render of what *)
(* they queued is a later step, and the persistence effects of that render *)
(* are a step after it.                                                    *)
(***************************************************************************)
EXTENDS Integers, Sequences, FiniteSets, TLC

VARIABLES project, chatHistory, isLoading, storage, inflight, queue, effects, issued, requests, booted

\* project, chatHistory, isLoading: the three useState cells of App, as last rendered
\* storage:  localStorage, the text under the keys 'project' and 'chatHistory'
\* inflight: the generateContent calls awaiting their response, oldest first; a
\*           next-step call carries the message and the project of its prompt
\* queue:    the batches of state updates React has not rendered yet, oldest first
\* effects:  which persistence effects of the last render have not run yet
\* issued:   how many identifiers generateId has handed out
\* requests: how many gateway requests have been issued
\* booted:   whether the effects of the first render have run
\* A ChatMessage is modelled without its timestamp.
vars == <<project, chatHistory, isLoading, storage, inflight, queue, effects, issued, requests,
          booted>>

(* ------------------------------ bounds --------------------------------- *)
\* gateway requests issued in one run
MaxRequests == 2

(* --------------------------- JS value helpers -------------------------- *)
\* null of useState<Project | null>(null)
Null == [isNull |-> TRUE]

\* an optional key of a JSON object is a field that may be missing
Has(obj, key) == key \in DOMAIN obj

\* JS `obj.key || dflt` for a string field: missing and "" are both falsy
StrOr(obj, key, dflt) == IF Has(obj, key) /\ obj[key] # "" THEN obj[key] ELSE dflt

\* JS `obj.key || 0` for an integer field
IntOr(obj, key) == IF Has(obj, key) THEN obj[key] ELSE 0

Min(a, b) == IF a < b THEN a ELSE b
Max(a, b) == IF a > b THEN a ELSE b

(* ------------------------------ storage -------------------------------- *)
\* localStorage.getItem returns null for a key that is not there
Absent == [kind |-> "absent"]
\* a stored text that JSON.parse rejects
Malformed == [kind |-> "malformed"]
\* JSON.stringify: the text that holds a document
Stringify(doc) == [kind |-> "json", doc |-> doc]
\* JSON.parse throws on malformed text
ParseThrows(text) == text.kind # "json"
JSONparse(text) == text.doc
\* `if (saved)`: null is falsy, a non-empty text is truthy
Truthy(text) == text.kind # "absent"

EmptyStorage == [project |-> Absent, chatHistory |-> Absent]

\* variant: the effect removes the key when there is no project and saves nothing
\* when there is one
EffectProjectRemovesOnly(p, st) ==
    IF p # Null THEN st ELSE [st EXCEPT !.project = Absent]

\* useEffect(..., [project])
EffectProject(p, st) ==
    [st EXCEPT !.project = IF p # Null THEN Stringify(p) ELSE Absent]

\* useEffect(..., [chatHistory])
EffectChat(h, st) ==
    [st EXCEPT !.chatHistory = IF Len(h) > 0 THEN Stringify(h) ELSE Absent]

(* ------------------------------- texts --------------------------------- *)
Apology == "Sorry, I encountered an error. Please try again."
CompletedText(name) == "I have just completed the task: \"" \o name \o "\"."

UserMessage(text) == [sender |-> "user", text |-> text]
AiMessage(text) == [sender |-> "ai", text |-> text]

(* --------------------------- identifier generator ---------------------- *)
\* generateId(): `id_${Date.now()}_${random}`; the n-th identifier handed out.
\* Successive calls return different values.
generateId(n) == n

(* ------------------------- project state reducer ----------------------- *)
\* newTasks.findIndex(t => t.id === taskUpdate.taskId || t.name === taskUpdate.name)
\* the position of the first task that matches, 0 for JS's -1
findIndex(tasks, taskUpdate) ==
    LET hits == {i \in 1..Len(tasks) :
                    \/ Has(taskUpdate, "taskId") /\ tasks[i].id = taskUpdate.taskId
                    \/ tasks[i].name = taskUpdate.name}
    IN IF hits = {} THEN 0 ELSE CHOOSE i \in hits : \A j \in hits : i <= j

\* variant: splice(index) without the count, which removes up to the end
spliceToEnd(tasks, index) ==
    [i \in 1..(index - 1) |-> tasks[i]]

\* newTasks.splice(index, 1)
splice(tasks, index) ==
    [i \in 1..(Len(tasks) - 1) |-> IF i < index THEN tasks[i] ELSE tasks[i + 1]]

\* the task pushed by action 'add'
NewTask(taskUpdate, id) ==
    [id |-> id,
     name |-> taskUpdate.name,
     description |-> StrOr(taskUpdate, "description", ""),
     status |-> StrOr(taskUpdate, "status", "Not Started"),
     subtasks |-> <<>>]

\* variant: the patch spreads the whole update over the task, so the update's
\* taskId lands in the task's id
PatchTaskSpreadsUpdate(task, taskUpdate) ==
    [task EXCEPT !.id = IF Has(taskUpdate, "taskId") THEN taskUpdate.taskId ELSE task.id,
                 !.name = StrOr(taskUpdate, "name", task.name),
                 !.description = StrOr(taskUpdate, "description", task.description),
                 !.status = StrOr(taskUpdate, "status", task.status)]

\* variant: the update replaces the task's fields, a missing one taking its default
PatchTaskReplaces(task, taskUpdate) ==
    [task EXCEPT !.name = taskUpdate.name,
                 !.description = StrOr(taskUpdate, "description", ""),
                 !.status = StrOr(taskUpdate, "status", "Not Started")]

\* the object written by action 'update' or 'complete'
PatchTask(task, taskUpdate) ==
    [task EXCEPT !.name = StrOr(taskUpdate, "name", task.name),
                 !.description = StrOr(taskUpdate, "description", task.description),
                 !.status = StrOr(taskUpdate, "status", task.status)]

\* whether the forEach body calls generateId() for this entry
TaskUpdateTakesId(tasks, taskUpdate) ==
    taskUpdate.action = "add" /\ findIndex(tasks, taskUpdate) = 0

\* variant: 'add' pushes without looking at existingTaskIndex
ApplyTaskUpdateAlwaysPushes(tasks, taskUpdate, id) ==
    LET existingTaskIndex == findIndex(tasks, taskUpdate)
    IN IF taskUpdate.action = "add"
       THEN Append(tasks, NewTask(taskUpdate, id))
       ELSE IF existingTaskIndex # 0
            THEN IF taskUpdate.action = "remove"
                 THEN splice(tasks, existingTaskIndex)
                 ELSE [tasks EXCEPT ![existingTaskIndex] = PatchTask(@, taskUpdate)]
            ELSE tasks

\* variant: an update or complete that finds no task creates it
ApplyTaskUpdateUpserts(tasks, taskUpdate, id) ==
    LET existingTaskIndex == findIndex(tasks, taskUpdate)
    IN IF existingTaskIndex = 0
       THEN IF taskUpdate.action = "remove"
            THEN tasks
            ELSE Append(tasks, NewTask(taskUpdate, id))
       ELSE IF taskUpdate.action = "add"
            THEN tasks
            ELSE IF taskUpdate.action = "remove"
                 THEN splice(tasks, existingTaskIndex)
                 ELSE [tasks EXCEPT ![existingTaskIndex] = PatchTask(@, taskUpdate)]

\* one iteration of update.taskUpdates.forEach(...)
ApplyTaskUpdate(tasks, taskUpdate, id) ==
    LET existingTaskIndex == findIndex(tasks, taskUpdate)
    IN IF taskUpdate.action = "add"
       THEN IF existingTaskIndex = 0
            THEN Append(tasks, NewTask(taskUpdate, id))
            ELSE tasks
       ELSE IF existingTaskIndex # 0
            THEN IF taskUpdate.action = "remove"
                 THEN splice(tasks, existingTaskIndex)
                 ELSE [tasks EXCEPT ![existingTaskIndex] = PatchTask(@, taskUpdate)]
            ELSE tasks

\* variant: the entries are taken from the last to the first
RECURSIVE ApplyTaskUpdatesReversed(_, _, _)
ApplyTaskUpdatesReversed(tasks, taskUpdates, n) ==
    IF taskUpdates = <<>>
    THEN [tasks |-> tasks, n |-> n]
    ELSE LET tu == taskUpdates[Len(taskUpdates)]
             takes == TaskUpdateTakesId(tasks, tu)
         IN ApplyTaskUpdatesReversed(ApplyTaskUpdate(tasks, tu, generateId(n + 1)),
                                     SubSeq(taskUpdates, 1, Len(taskUpdates) - 1),
                                     IF takes THEN n + 1 ELSE n)

\* the whole forEach: entries in order, each on the list the earlier ones left;
\* n is the number of identifiers handed out so far
RECURSIVE ApplyTaskUpdates(_, _, _)
ApplyTaskUpdates(tasks, taskUpdates, n) ==
    IF taskUpdates = <<>>
    THEN [tasks |-> tasks, n |-> n]
    ELSE LET tu == Head(taskUpdates)
             takes == TaskUpdateTakesId(tasks, tu)
         IN ApplyTaskUpdates(ApplyTaskUpdate(tasks, tu, generateId(n + 1)),
                             Tail(taskUpdates),
                             IF takes THEN n + 1 ELSE n)

\* variant: Math.min(100, ...) without the Math.max(0, ...) around it
NewProgressNoFloor(progress, update) ==
    Min(100, progress + IntOr(update, "progressUpdate"))

\* Math.max(0, Math.min(100, progress + (update.progressUpdate || 0)))
NewProgress(progress, update) ==
    Max(0, Min(100, progress + IntOr(update, "progressUpdate")))

\* variant: newBlockers starts empty instead of as a copy of prevProject.blockers
NewBlockersFromEmpty(blockers, update, n) ==
    IF Has(update, "blockers")
    THEN [i \in 1..Len(update.blockers) |->
            [id |-> generateId(n + i),
             description |-> update.blockers[i].description,
             resolved |-> FALSE]]
    ELSE blockers

\* update.blockers.forEach(b => newBlockers.push({id, description, resolved: false}))
NewBlockers(blockers, update, n) ==
    IF Has(update, "blockers")
    THEN blockers \o [i \in 1..Len(update.blockers) |->
                        [id |-> generateId(n + i),
                         description |-> update.blockers[i].description,
                         resolved |-> FALSE]]
    ELSE blockers

\* variant: the deltas are stored as the new totals
NewPrioritiesOverwrites(priorities, update) ==
    IF Has(update, "priorityUpdate")
    THEN [speed |-> IntOr(update.priorityUpdate, "speed"),
          scope |-> IntOr(update.priorityUpdate, "scope")]
    ELSE priorities

\* update.priorityUpdate ? {speed: ..., scope: ...} : prevProject.priorities
NewPriorities(priorities, update) ==
    IF Has(update, "priorityUpdate")
    THEN [speed |-> priorities.speed + IntOr(update.priorityUpdate, "speed"),
          scope |-> priorities.scope + IntOr(update.priorityUpdate, "scope")]
    ELSE priorities

\* number of generateId() calls of one run of the updater
IdsTaken(prevProject, update) ==
    IF prevProject = Null THEN 0
    ELSE LET t == IF Has(update, "taskUpdates")
                  THEN ApplyTaskUpdates(prevProject.tasks, update.taskUpdates, 0).n
                  ELSE 0
             b == IF Has(update, "blockers") THEN Len(update.blockers) ELSE 0
         IN t + b

\* variant: the returned object lists its fields without ...prevProject, and the
\* fields the update does not name take their initial values
ApplyUpdateWithoutSpread(prevProject, update, n) ==
    IF prevProject = Null THEN Null
    ELSE LET r == IF Has(update, "taskUpdates")
                  THEN ApplyTaskUpdates(prevProject.tasks, update.taskUpdates, n)
                  ELSE [tasks |-> prevProject.tasks, n |-> n]
         IN [prevProject EXCEPT
                !.tasks = r.tasks,
                !.progress = NewProgress(prevProject.progress, update),
                !.blockers = NewBlockers(prevProject.blockers, update, r.n),
                !.suggestedActions = update.suggestedActions,
                !.priorities = NewPriorities(prevProject.priorities, update),
                !.timeline = [startDate |-> "", targetDate |-> ""],
                !.projectGoals = <<>>]

\* variant: the new suggestions are added to those of the earlier turns
ApplyUpdateKeepsSuggestions(prevProject, update, n) ==
    IF prevProject = Null THEN Null
    ELSE LET r == IF Has(update, "taskUpdates")
                  THEN ApplyTaskUpdates(prevProject.tasks, update.taskUpdates, n)
                  ELSE [tasks |-> prevProject.tasks, n |-> n]
         IN [prevProject EXCEPT
                !.tasks = r.tasks,
                !.progress = NewProgress(prevProject.progress, update),
                !.blockers = NewBlockers(prevProject.blockers, update, r.n),
                !.suggestedActions = @ \o update.suggestedActions,
                !.priorities = NewPriorities(prevProject.priorities, update)]

\* the updater passed to setProject in handleSendMessage
ApplyUpdate(prevProject, update, n) ==
    IF prevProject = Null THEN Null
    ELSE LET r == IF Has(update, "taskUpdates")
                  THEN ApplyTaskUpdates(prevProject.tasks, update.taskUpdates, n)
                  ELSE [tasks |-> prevProject.tasks, n |-> n]
         IN [prevProject EXCEPT
                !.tasks = r.tasks,
                !.progress = NewProgress(prevProject.progress, update),
                !.blockers = NewBlockers(prevProject.blockers, update, r.n),
                !.suggestedActions = update.suggestedActions,
                !.priorities = NewPriorities(prevProject.priorities, update)]

\* the Project built by handleCreateProject from the gateway's result
NewProject(result, n) ==
    [projectName |-> result.project.projectName,
     projectType |-> result.project.projectType,
     projectGoals |-> result.project.projectGoals,
     tasks |-> [i \in 1..Len(result.project.initialTasks) |->
                  [id |-> generateId(n + i),
                   name |-> result.project.initialTasks[i].name,
                   description |-> result.project.initialTasks[i].description,
                   status |-> "Not Started",
                   subtasks |-> <<>>]],
     progress |-> 0,
     priorities |-> [speed |-> 0, scope |-> 0],
     stakeholders |-> <<>>,
     timeline |-> [startDate |-> "now", targetDate |-> ""],
     blockers |-> <<>>,
     resources |-> <<>>,
     suggestedActions |-> result.suggestedActions]

(* ------------------------------ the gateway ---------------------------- *)
\* what the user types into the creation form (all three fields non-empty)
CreationForms == {[name |-> "Recipe App", type |-> "Mobile App", goals |-> "search, favorites"]}

\* results of the project-creation call that pass projectCreationSchema
CreateResults(form) ==
    {[project |-> [projectName |-> form.name,
                   projectType |-> form.type,
                   projectGoals |-> <<"search", "favorites">>,
                   initialTasks |-> <<[name |-> "A", description |-> "da"]>>],
      openingStatement |-> "welcome",
      suggestedActions |-> <<"what next?">>]}

\* what the user types into the chat input
TypedTexts == {"", "   ", " what next? "}
\* String.prototype.trim on the typed texts
Trim(text) == IF text = "   " THEN ""
              ELSE IF text = " what next? " THEN "what next?"
              ELSE text

TaskIds(p) == IF p = Null THEN {} ELSE {p.tasks[i].id : i \in 1..Len(p.tasks)}
\* the id of the last task of a project, if it has one
LastTaskId(p) == IF p = Null \/ p.tasks = <<>> THEN {} ELSE {p.tasks[Len(p.tasks)].id}

\* consultancyUpdate objects that pass nextStepSchema, as the model may answer a
\* request that carried `snapshot`: the task id it names is read off the snapshot.
\* No task is ever named "Z": the update of "Z" is a dangling reference.  The
\* 'complete' of "A" that stands last carries no status.  One payload adds "D"
\* twice and then updates it to Completed, adds "B" and updates it after it has
\* removed it.  One payload holds the three required keys and nothing else, with
\* a progressUpdate of 0.  One completes a task it names twice: the last task of
\* the snapshot by its id and "A" by name.
Updates(snapshot) ==
    {[responseText |-> "ok", suggestedActions |-> <<"what next?">>, progressUpdate |-> 60,
      taskUpdates |-> <<[action |-> "complete", taskId |-> id, name |-> "A",
                         status |-> "Completed"]>>] : id \in LastTaskId(snapshot)}
    \cup
    {[responseText |-> "ok", suggestedActions |-> <<>>, progressUpdate |-> -150,
      blockers |-> <<[description |-> "blocked on api"]>>,
      priorityUpdate |-> [speed |-> 2],
      taskUpdates |-> <<[action |-> "update", name |-> "Z", status |-> "Blocked"]>>],
     [responseText |-> "ok", suggestedActions |-> <<>>, progressUpdate |-> 0],
     [responseText |-> "ok", suggestedActions |-> <<>>, progressUpdate |-> 0,
      priorityUpdate |-> [scope |-> -1],
      taskUpdates |-> <<[action |-> "add", name |-> "D"],
                        [action |-> "add", name |-> "D"],
                        [action |-> "update", name |-> "D", description |-> "dd",
                         status |-> "Completed"],
                        [action |-> "add", name |-> "B"],
                        [action |-> "remove", name |-> "B"],
                        [action |-> "update", name |-> "B", status |-> "Blocked"],
                        [action |-> "complete", name |-> "A"]>>]}

(* ------------------------------ start-up ------------------------------- *)
\* a project and a chat log as an earlier session of the program saved them
SampleResult == CHOOSE r \in CreateResults(CHOOSE f \in CreationForms : TRUE) : TRUE
SampleProject == NewProject(SampleResult, 0 - Len(SampleResult.project.initialTasks))
SampleChat == <<AiMessage(SampleResult.openingStatement)>>

StoredProjects == {Absent, Malformed, Stringify(SampleProject)}
StoredChats == {Absent, Malformed, Stringify(SampleChat)}

\* no persistence effect is waiting to run
NoEffects == [project |-> FALSE, chatHistory |-> FALSE]

\* the state after `const App = () => { useState(null); useState([]); useState(false)`
Init ==
    /\ project = Null
    /\ chatHistory = <<>>
    /\ isLoading = FALSE
    /\ storage \in [project : StoredProjects, chatHistory : StoredChats]
    /\ inflight = <<>>
    /\ queue = <<>>
    /\ effects = NoEffects
    /\ issued = 0
    /\ requests = 0
    /\ booted = FALSE

(* ------------------------- queued state updates ------------------------ *)
\* A batch is the set-state calls one run of code made before it returned to the
\* event loop: a record with a key for each cell it set.  setX(value) is SetTo,
\* setProject(prevProject => ...) is Merge, setChatHistory(prev => [...prev, m]) is
\* AppendMessage.  The batch of a next-step continuation also names its call.
SetTo(value) == [fn |-> "set", value |-> value]
Merge(update) == [fn |-> "merge", update |-> update]
AppendMessage(message) == [fn |-> "append", message |-> message]

\* the state of the last render, as the handlers of that render close over it,
\* with the effects of that render that are still to run
Rendered ==
    [project |-> project, chatHistory |-> chatHistory, isLoading |-> isLoading,
     issued |-> issued, projectNew |-> effects.project, chatNew |-> effects.chatHistory]

\* React applies the updates of one batch to the state the earlier updates left.
\* projectNew and chatNew: whether the cell now holds another object than the one
\* of the last render, which is when its effect runs.
ApplyBatch(state, batch) ==
    LET sets == Has(batch, "project")
        merges == sets /\ batch.project.fn = "merge"
        newProject == IF ~sets THEN state.project
                      ELSE IF merges
                           THEN ApplyUpdate(state.project, batch.project.update, state.issued)
                           ELSE batch.project.value
        newChat == IF ~Has(batch, "chatHistory") THEN state.chatHistory
                   ELSE IF batch.chatHistory.fn = "append"
                        THEN Append(state.chatHistory, batch.chatHistory.message)
                        ELSE batch.chatHistory.value
    IN [project |-> newProject,
        chatHistory |-> newChat,
        isLoading |-> IF Has(batch, "isLoading") THEN batch.isLoading ELSE state.isLoading,
        issued |-> IF merges THEN state.issued + IdsTaken(state.project, batch.project.update)
                   ELSE state.issued,
        projectNew |-> IF ~sets THEN state.projectNew
                       ELSE IF newProject # Null THEN TRUE
                       ELSE IF merges THEN state.projectNew
                       ELSE project # Null,
        chatNew |-> state.chatNew \/ Has(batch, "chatHistory")]

\* the updates of the queue, oldest first
RECURSIVE ApplyBatches(_, _)
ApplyBatches(batches, state) ==
    IF batches = <<>> THEN state
    ELSE ApplyBatches(Tail(batches), ApplyBatch(state, Head(batches)))

\* the persistence effects after a render, each run when its cell changed since
\* the effect last ran
RunEffects(state, st) ==
    LET afterProject == IF state.projectNew THEN EffectProject(state.project, st) ELSE st
    IN IF state.chatNew THEN EffectChat(state.chatHistory, afterProject) ELSE afterProject

\* the render of a user event: React renders at once with every queued update
\* applied and runs the effects before it returns, those still waiting included;
\* `st` is localStorage as the handler left it
Commit(batches, st) ==
    LET state == ApplyBatches(batches, Rendered)
    IN /\ project' = state.project
       /\ chatHistory' = state.chatHistory
       /\ isLoading' = state.isLoading
       /\ issued' = state.issued
       /\ storage' = RunEffects(state, st)
       /\ queue' = <<>>
       /\ effects' = NoEffects

\* the three effects of the first render.  The load effect reads both keys and
\* queues what it could parse; the persistence effects see the initial state and
\* remove both keys.  What was queued is rendered, and saved again, in a later task.
Load ==
    /\ ~booted
    /\ LET savedProject == storage.project
           savedChatHistory == storage.chatHistory
           projectThrows == Truthy(savedProject) /\ ParseThrows(savedProject)
           chatThrows == ~projectThrows /\ Truthy(savedChatHistory)
                                        /\ ParseThrows(savedChatHistory)
           caught == projectThrows \/ chatThrows
           setsProject == Truthy(savedProject) /\ ~projectThrows
           setsChat == Truthy(savedChatHistory) /\ ~caught
           afterLoad == IF caught THEN EmptyStorage ELSE storage
           afterMount == EffectChat(<<>>, EffectProject(Null, afterLoad))
       IN /\ queue' = IF setsProject /\ setsChat
                      THEN <<[project |-> SetTo(JSONparse(savedProject)),
                              chatHistory |-> SetTo(JSONparse(savedChatHistory))]>>
                      ELSE IF setsProject
                      THEN <<[project |-> SetTo(JSONparse(savedProject))]>>
                      ELSE IF setsChat
                      THEN <<[chatHistory |-> SetTo(JSONparse(savedChatHistory))]>>
                      ELSE <<>>
          /\ storage' = afterMount
    /\ booted' = TRUE
    /\ UNCHANGED <<project, chatHistory, isLoading, inflight, effects, issued, requests>>

\* the task React scheduled for the queued updates: it renders them, and leaves
\* the effects of the cells that changed to a task of their own.  That task was
\* scheduled before any render that follows, so it runs first.
Render ==
    /\ booted
    /\ queue # <<>>
    /\ effects = NoEffects
    /\ LET state == ApplyBatches(queue, Rendered)
       IN /\ project' = state.project
          /\ chatHistory' = state.chatHistory
          /\ isLoading' = state.isLoading
          /\ issued' = state.issued
          /\ effects' = [project |-> state.projectNew, chatHistory |-> state.chatNew]
    /\ queue' = <<>>
    /\ UNCHANGED <<storage, inflight, requests, booted>>

\* the task of the persistence effects a render left: until it runs, the page
\* shows the new state and localStorage holds the texts of the state before
Effects ==
    /\ booted
    /\ effects # NoEffects
    /\ storage' = RunEffects(Rendered, storage)
    /\ effects' = NoEffects
    /\ UNCHANGED <<project, chatHistory, isLoading, inflight, queue, issued, requests, booted>>

\* the page is loaded again: a new App over the same localStorage; the calls of the
\* page that went away are never answered and its queued updates never rendered
Reload ==
    /\ booted
    /\ project' = Null
    /\ chatHistory' = <<>>
    /\ isLoading' = FALSE
    /\ inflight' = <<>>
    /\ queue' = <<>>
    /\ effects' = NoEffects
    /\ booted' = FALSE
    /\ UNCHANGED <<storage, issued, requests>>

(* --------------------------- project creation -------------------------- *)
\* an update of the load effect is still queued: of all the code that queues
\* updates, only the load effect does not set isLoading
MountQueued == \E j \in 1..Len(queue) : ~Has(queue[j], "isLoading")

RemoveAt(seq, i) == [j \in 1..(Len(seq) - 1) |-> IF j < i THEN seq[j] ELSE seq[j + 1]]

\* ProjectCreationScreen.handleSubmit -> handleCreateProject, up to its await.
\* The screen is rendered while there is no project; its submit button is disabled
\* while isLoading.  handleSubmit returns unless the three fields are filled, and
\* the render of each change event that filled one took in what the load effect
\* had queued: a stored project has replaced the screen by then.  A user event is
\* rendered at once, after what was queued.
CreateProject(form) ==
    /\ booted
    /\ project = Null
    /\ ~isLoading
    /\ ~MountQueued
    /\ requests < MaxRequests
    /\ requests' = requests + 1
    /\ Commit(Append(queue, [isLoading |-> TRUE]), storage)
    /\ inflight' = Append(inflight, [kind |-> "createProject", form |-> form])
    /\ UNCHANGED booted

\* handleCreateProject after its await, the call having returned `result`
CreateSucceeds(i, result) ==
    /\ inflight[i].kind = "createProject"
    /\ LET newProject == NewProject(result, issued)
           openingMessage == AiMessage(result.openingStatement)
       IN queue' = Append(queue, [project |-> SetTo(newProject),
                                  chatHistory |-> SetTo(<<openingMessage>>),
                                  isLoading |-> FALSE])
    /\ issued' = issued + Len(result.project.initialTasks)
    /\ inflight' = RemoveAt(inflight, i)
    /\ UNCHANGED <<project, chatHistory, isLoading, storage, effects, requests, booted>>

\* variant: setIsLoading(false) inside the try, so a failure leaves the flag up
CreateFailsKeepsLoading(i) ==
    /\ inflight[i].kind = "createProject"
    /\ inflight' = RemoveAt(inflight, i)
    /\ UNCHANGED <<project, chatHistory, isLoading, storage, queue, effects, issued, requests,
                 booted>>

\* handleCreateProject after its await, the call having thrown: alert, then
\* setIsLoading(false)
CreateFails(i) ==
    /\ inflight[i].kind = "createProject"
    /\ queue' = Append(queue, [isLoading |-> FALSE])
    /\ inflight' = RemoveAt(inflight, i)
    /\ UNCHANGED <<project, chatHistory, isLoading, storage, effects, issued, requests, booted>>

(* ---------------------------- conversation ----------------------------- *)
\* handleSendMessage up to its await.  `project` and `chatHistory` are those of the
\* render the handler belongs to: updatedChatHistory is built from that list, and
\* set after whatever is still queued.
handleSendMessage(message) ==
    /\ project # Null
    /\ requests < MaxRequests
    /\ requests' = requests + 1
    /\ LET updatedChatHistory == Append(chatHistory, UserMessage(message))
       IN Commit(Append(queue, [chatHistory |-> SetTo(updatedChatHistory),
                                isLoading |-> TRUE]),
                 storage)
    /\ inflight' = Append(inflight, [kind |-> "nextStep",
                                     message |-> message,
                                     snapshot |-> project])
    /\ UNCHANGED booted

\* ActionPanel.handleSend: the input and the button are disabled while isLoading
SendText(text) ==
    /\ booted
    /\ project # Null
    /\ Trim(text) # ""
    /\ ~isLoading
    /\ handleSendMessage(Trim(text))

\* ActionPanel.handleSuggestedSend: a click on one of project.suggestedActions
SendSuggested(k) ==
    /\ booted
    /\ project # Null
    /\ k \in 1..Len(project.suggestedActions)
    /\ ~isLoading
    /\ handleSendMessage(project.suggestedActions[k])

\* variant: the handler also writes the status into the task before it sends
MarkCompletedSetsStatus(k) ==
    /\ booted
    /\ project # Null
    /\ k \in 1..Len(project.tasks)
    /\ project.tasks[k].status # "Completed"
    /\ requests < MaxRequests
    /\ requests' = requests + 1
    /\ LET name == project.tasks[k].name
           updatedChatHistory == Append(chatHistory, UserMessage(CompletedText(name)))
       IN /\ Commit(Append(queue,
                           [project |-> SetTo([project EXCEPT !.tasks[k].status = "Completed"]),
                            chatHistory |-> SetTo(updatedChatHistory),
                            isLoading |-> TRUE]),
                    storage)
          /\ inflight' = Append(inflight, [kind |-> "nextStep",
                                           message |-> CompletedText(name),
                                           snapshot |-> project])
    /\ UNCHANGED booted

\* TaskItem's 'Mark as Completed' button -> handleTaskStatusChange(task.id, 'Completed')
MarkCompleted(k) ==
    /\ booted
    /\ project # Null
    /\ k \in 1..Len(project.tasks)
    /\ project.tasks[k].status # "Completed"
    /\ LET taskId == project.tasks[k].id
           found == {j \in 1..Len(project.tasks) : project.tasks[j].id = taskId}
           task == project.tasks[CHOOSE j \in found : \A l \in found : j <= l]
       IN handleSendMessage(CompletedText(task.name))

\* handleSendMessage after its await, the call having returned `update`: the
\* continuation queues its three updates and returns
TurnSucceeds(i, update) ==
    /\ inflight[i].kind = "nextStep"
    /\ queue' = Append(queue, [project |-> Merge(update),
                               chatHistory |-> AppendMessage(AiMessage(update.responseText)),
                               isLoading |-> FALSE,
                               call |-> inflight[i]])
    /\ inflight' = RemoveAt(inflight, i)
    /\ UNCHANGED <<project, chatHistory, isLoading, storage, effects, issued, requests, booted>>

\* handleSendMessage after its await, the call having thrown: catch and finally
TurnFails(i) ==
    /\ inflight[i].kind = "nextStep"
    /\ queue' = Append(queue, [chatHistory |-> AppendMessage(AiMessage(Apology)),
                               isLoading |-> FALSE,
                               call |-> inflight[i]])
    /\ inflight' = RemoveAt(inflight, i)
    /\ UNCHANGED <<project, chatHistory, isLoading, storage, effects, issued, requests, booted>>

\* variant: handleReset without setChatHistory([])
handleResetKeepsChat ==
    /\ booted
    /\ project # Null
    /\ Commit(Append(queue, [project |-> SetTo(Null)]), EmptyStorage)
    /\ UNCHANGED <<inflight, requests, booted>>

\* handleReset with window.confirm answered yes; the button is in ProjectPane
handleReset ==
    /\ booted
    /\ project # Null
    /\ Commit(Append(queue, [project |-> SetTo(Null), chatHistory |-> SetTo(<<>>)]),
              EmptyStorage)
    /\ UNCHANGED <<inflight, requests, booted>>

\* the buttons ConsultancyScreen renders: one per task, one per suggested action
TaskPositions == IF project = Null THEN {} ELSE 1..Len(project.tasks)
SuggestionPositions == IF project = Null THEN {} ELSE 1..Len(project.suggestedActions)

\* what the gateway may return for a call in flight
CreateAnswers(call) == IF call.kind = "createProject" THEN CreateResults(call.form) ELSE {}
TurnAnswers(call) == IF call.kind = "nextStep" THEN Updates(call.snapshot) ELSE {}

Next ==
    \/ Load
    \/ Render
    \/ Effects
    \/ Reload
    \/ \E form \in CreationForms : CreateProject(form)
    \/ \E i \in 1..Len(inflight) : \E result \in CreateAnswers(inflight[i]) :
          CreateSucceeds(i, result)
    \/ \E i \in 1..Len(inflight) : CreateFails(i)
    \/ \E text \in TypedTexts : SendText(text)
    \/ \E k \in SuggestionPositions : SendSuggested(k)
    \/ \E k \in TaskPositions : MarkCompleted(k)
    \/ \E i \in 1..Len(inflight) : \E update \in TurnAnswers(inflight[i]) :
          TurnSucceeds(i, update)
    \/ \E i \in 1..Len(inflight) : TurnFails(i)
    \/ handleReset

Spec == Init /\ [][Next]_vars

\* a gateway call in flight gets its answer: the promise of generateContent
\* settles, and the continuation of the handler that awaits it runs
Returns ==
    \E i \in 1..Len(inflight) :
       \/ \E result \in CreateAnswers(inflight[i]) : CreateSucceeds(i, result)
       \/ CreateFails(i)
       \/ \E update \in TurnAnswers(inflight[i]) : TurnSucceeds(i, update)
       \/ TurnFails(i)

\* the behaviours in which every gateway call eventually returns and every
\* task React scheduled eventually runs.  The last two are weak fairness of Effects
\* and of Render with their enabling conditions written out.
FairSpec ==
    /\ Spec
    /\ WF_vars(Returns)
    /\ ([]<>(~booted \/ effects = NoEffects) \/ []<><<Effects>>_vars)
    /\ ([]<>(~booted \/ queue = <<>> \/ effects # NoEffects) \/ []<><<Render>>_vars)

(* ======================================================================= *)
(*                               the claims                                *)
(* ======================================================================= *)

(* C1: in every reachable state at most one gateway call is in flight: a   *)
(* send made while a call awaits its response (typed text, suggested       *)
(* action, 'Mark as Completed') starts no second call.                     *)
C1_AtMostOneInFlight == Len(inflight) <= 1

\* the batch a next-step continuation queued: after a response, after a failure
IsTurn(batch) == Has(batch, "call") /\ Has(batch, "project")
IsFailedTurn(batch) == Has(batch, "call") /\ ~Has(batch, "project")

\* a step of the page in which React renders what was queued: the render it
\* scheduled, or a user event that comes before it
Renders == queue # <<>> /\ queue' = <<>> /\ booted'

\* a creation or a load is queued: the next render puts another project in place
ProjectReplaced ==
    \E j \in 1..Len(queue) : Has(queue[j], "project") /\ queue[j].project.fn = "set"

(* C2: when the gateway call of a turn fails, the project (tasks, progress, *)
(* blockers, priorities, suggestedActions) and its persisted copy are left *)
(* as they were, the chat history gains exactly one ai message with the    *)
(* fixed apology text, and the loading flag returns to false: so in the    *)
(* step that renders what the failed call queued, a reset apart.           *)
C2_FailureLeavesProject ==
    [][(Renders /\ Len(queue) = 1 /\ IsFailedTurn(queue[1]) /\ ~handleReset) =>
          /\ project' = project
          /\ ~effects.project => storage'.project = storage.project
          /\ chatHistory' =
                Append(chatHistory,
                       [sender |-> "ai",
                        text |-> "Sorry, I encountered an error. Please try again."])
          /\ isLoading' = FALSE]_vars

(* C3: a confirmed reset, from any state (also while a gateway call awaits *)
(* its response), leaves both persisted keys absent, no project in memory  *)
(* and an empty chat history.                                              *)
C3_ResetClearsAll ==
    [][handleReset =>
          /\ project' = Null
          /\ chatHistory' = <<>>
          /\ storage'.project = Absent
          /\ storage'.chatHistory = Absent]_vars

\* the state a reset leaves while a next-step call is still awaiting its response
C3_Witness ==
    /\ booted
    /\ project = Null
    /\ chatHistory = <<>>
    /\ storage = EmptyStorage
    /\ \E i \in 1..Len(inflight) : inflight[i].kind = "nextStep"

(* C4: at start-up, if the text stored under either key is malformed, all  *)
(* persisted state is wiped and the application goes on with empty state:  *)
(* no project in memory, empty chat history, nothing read from storage     *)
(* waiting to be rendered, both keys absent.                               *)
C4_MalformedStartsFresh ==
    [][(Load /\ (storage.project = Malformed \/ storage.chatHistory = Malformed)) =>
          /\ project' = Null
          /\ chatHistory' = <<>>
          /\ queue' = <<>>
          /\ storage'.project = Absent
          /\ storage'.chatHistory = Absent]_vars

(* C5: at start-up, if either persisted key is absent, the application     *)
(* starts at the creation screen (no project in memory) with an empty chat *)
(* log: nothing read from storage is rendered after the first render.      *)
C5_AbsentKeyStartsEmpty ==
    [][(Load /\ (storage.project = Absent \/ storage.chatHistory = Absent)) =>
          /\ project' = Null
          /\ chatHistory' = <<>>
          /\ queue' = <<>>]_vars

\* the task names of a project
TaskNames(p) == IF p = Null THEN {} ELSE {p.tasks[i].name : i \in 1..Len(p.tasks)}

\* the least element of a non-empty set of positions
First(positions) == CHOOSE i \in positions : \A j \in positions : i <= j

\* task updates that name a task of the project by id, by name, by both or by neither
ResolveProbes(p, actions) ==
    {[action |-> a, name |-> nm] : a \in actions, nm \in TaskNames(p) \cup {"Z"}}
    \cup {[action |-> a, name |-> nm, taskId |-> id] :
             a \in actions, nm \in TaskNames(p) \cup {"Z"},
             id \in TaskIds(p) \cup {generateId(issued + 1)}}

(* C6: task resolution is id-first with name as fallback: when the         *)
(* update's taskId is the id of an existing task, that task is the target  *)
(* even if another task earlier in the list has the update's name; a name  *)
(* match is used only when no task has that id.                            *)
C6_IdFirstResolution ==
    project # Null =>
       \A tu \in ResolveProbes(project, {"update", "remove"}) :
          LET tasks == project.tasks
              byId == {i \in 1..Len(tasks) : "taskId" \in DOMAIN tu /\ tasks[i].id = tu.taskId}
              byName == {i \in 1..Len(tasks) : tasks[i].name = tu.name}
              target == IF byId # {} THEN First(byId)
                        ELSE IF byName # {} THEN First(byName) ELSE 0
          IN findIndex(tasks, tu) = target

IsPrefix(s, t) == Len(s) <= Len(t) /\ SubSeq(t, 1, Len(s)) = s

(* C7: except for a confirmed reset, every transition (send, gateway       *)
(* success, gateway failure, project creation, start-up load) leaves the   *)
(* previous chat history as a prefix of the new one.  A page reload is the *)
(* end of one App and the start of another, not a transition of the chat   *)
(* history: its steps are left out.                                        *)
C7_ChatAppendOnly ==
    [][(~handleReset /\ ~Reload) => IsPrefix(chatHistory, chatHistory')]_vars

\* updates that carry nothing but a progress delta
ProgressProbes ==
    {[responseText |-> "ok", suggestedActions |-> <<>>, progressUpdate |-> d] :
        d \in {-101, -100, -41, -1, 1, 39, 40, 41, 100, 101}}

\* an update without progressUpdate: nextStepSchema requires the key, the updater
\* reads a missing one as 0
NoProgressProbe == [responseText |-> "ok", suggestedActions |-> <<>>]

(* C8: a successful turn on progress p with delta d (absent counted as 0)  *)
(* sets progress to max(0, min(100, p + d)); and 0 <= progress <= 100 in   *)
(* every reachable state that has a project.                               *)
C8_ProgressClamped ==
    project # Null =>
       /\ project.progress \in 0..100
       /\ \A update \in Updates(project) \cup ProgressProbes \cup {NoProgressProbe} :
             LET d == IF "progressUpdate" \in DOMAIN update
                      THEN update.progressUpdate ELSE 0
                 sum == project.progress + d
             IN ApplyUpdate(project, update, issued).progress =
                   IF sum < 0 THEN 0 ELSE IF sum > 100 THEN 100 ELSE sum

\* the upper clamp has acted: the deltas are 60, 0 and -150, so 100 comes only
\* from 60 + 60 = 120
C8_Witness ==
    /\ project # Null
    /\ project.progress = 100

(* C9: task identifiers are pairwise distinct within the task list in      *)
(* every reachable state, and update/complete never changes the id of the  *)
(* task it patches.                                                        *)
C9_TaskIdsDistinct ==
    project # Null =>
       /\ \A i, j \in 1..Len(project.tasks) :
             project.tasks[i].id = project.tasks[j].id => i = j
       /\ \A tu \in ResolveProbes(project, {"update", "complete"}) :
             LET patched == ApplyTaskUpdate(project.tasks, tu, generateId(issued + 1))
             IN /\ Len(patched) = Len(project.tasks)
                /\ \A k \in 1..Len(patched) : patched[k].id = project.tasks[k].id

\* a list that adds, a remove and an update have gone through
C9_Witness ==
    /\ project # Null
    /\ Len(project.tasks) = 2
    /\ project.tasks[2].name = "D"
    /\ project.tasks[2].status = "Completed"
    /\ "B" \notin TaskNames(project)

(* C10: an add whose taskId or name matches an existing task leaves the    *)
(* task list unchanged, so applying the same add twice yields the same     *)
(* list as applying it once.                                               *)
C10_AddIdempotent ==
    project # Null =>
       \A tu \in ResolveProbes(project, {"add"}) :
          LET tasks == project.tasks
              matches == \E i \in 1..Len(tasks) :
                            \/ "taskId" \in DOMAIN tu /\ tasks[i].id = tu.taskId
                            \/ tasks[i].name = tu.name
              once == ApplyTaskUpdate(tasks, tu, generateId(issued + 1))
              twice == ApplyTaskUpdate(once, tu, generateId(issued + 2))
          IN /\ matches => once = tasks
             /\ ~matches => Len(once) = Len(tasks) + 1
             /\ twice = once

\* the update that adds "D" (and lowers scope by one) was merged twice into the
\* project, and "D" is there once
C10_Witness ==
    /\ project # Null
    /\ project.priorities.scope = -2
    /\ Cardinality({i \in 1..Len(project.tasks) : project.tasks[i].name = "D"}) = 1

\* update and complete entries that name a task of the project, by id (under no
\* name or a new one) or by name, and supply a description (possibly the empty
\* text), a status, both or neither
PatchProbes(p) ==
    LET byId == {[action |-> "update", name |-> nm, taskId |-> id] :
                    nm \in {"", "N"}, id \in TaskIds(p)}
        byName == {[action |-> "complete", name |-> nm] : nm \in TaskNames(p)}
        supplied == {<<>>, [description |-> ""], [description |-> "dx"],
                     [status |-> "Blocked"],
                     [description |-> "dx", status |-> "Blocked"]}
    IN {tu @@ fields : tu \in byId \cup byName, fields \in supplied}

(* C11: an update or a complete that matches a task overwrites, of name,   *)
(* description and status, exactly those the entry supplies with a         *)
(* non-empty value; a field not supplied (also the status of a complete    *)
(* that carries none) keeps its value, the task keeps its id, its subtasks *)
(* and its position, and the other tasks are left as they were.            *)
C11_PartialPatch ==
    project # Null =>
       \A tu \in PatchProbes(project) :
          LET tasks == project.tasks
              hits == {i \in 1..Len(tasks) :
                          \/ "taskId" \in DOMAIN tu /\ tasks[i].id = tu.taskId
                          \/ tasks[i].name = tu.name}
              m == First(hits)
              patched == ApplyTaskUpdate(tasks, tu, generateId(issued + 1))
          IN hits # {} =>
                /\ Len(patched) = Len(tasks)
                /\ \A k \in 1..Len(tasks) : k # m => patched[k] = tasks[k]
                /\ patched[m].id = tasks[m].id
                /\ patched[m].subtasks = tasks[m].subtasks
                /\ \A f \in {"name", "description", "status"} :
                      patched[m][f] = IF f \in DOMAIN tu /\ tu[f] # ""
                                      THEN tu[f] ELSE tasks[m][f]

\* "D" is there, so the complete of "A" without a status was merged; "A" is
\* Completed by the complete that carried the status, its description untouched
C11_Witness ==
    /\ project # Null
    /\ "D" \in TaskNames(project)
    /\ \E i \in 1..Len(project.tasks) :
          /\ project.tasks[i].name = "A"
          /\ project.tasks[i].status = "Completed"
          /\ project.tasks[i].description = "da"

(* C12: a remove that matches deletes exactly one task, the first that     *)
(* matches, and leaves the other tasks unchanged and in their order; a     *)
(* remove that matches no task leaves the list unchanged.                  *)
C12_RemoveOne ==
    project # Null =>
       \A tu \in ResolveProbes(project, {"remove"}) :
          LET tasks == project.tasks
              hits == {i \in 1..Len(tasks) :
                          \/ "taskId" \in DOMAIN tu /\ tasks[i].id = tu.taskId
                          \/ tasks[i].name = tu.name}
              m == First(hits)
              removed == ApplyTaskUpdate(tasks, tu, generateId(issued + 1))
          IN IF hits = {}
             THEN removed = tasks
             ELSE /\ Len(removed) = Len(tasks) - 1
                  /\ \A k \in 1..Len(removed) :
                        removed[k] = IF k < m THEN tasks[k] ELSE tasks[k + 1]

\* "B" was added after "A" and "D" and removed again, and they stay in that
\* order: the id after that of "D" went to "B", no blocker has taken one
C12_Witness ==
    /\ project # Null
    /\ Len(project.tasks) = 2
    /\ project.tasks[1].name = "A"
    /\ project.tasks[2].name = "D"
    /\ project.blockers = <<>>
    /\ issued = project.tasks[2].id + 1

\* update and complete entries whose taskId and name no task of the project has
DanglingProbes ==
    {[action |-> "update", name |-> "Z", status |-> "Blocked"],
     [action |-> "complete", name |-> "Z"],
     [action |-> "complete", name |-> "Z", taskId |-> generateId(issued + 1),
      description |-> "dz", status |-> "Completed"]}

\* the payload `update` with the entry `taskUpdate` put in front of its taskUpdates
WithFirstEntry(update, taskUpdate) ==
    IF "taskUpdates" \in DOMAIN update
    THEN [update EXCEPT !.taskUpdates = <<taskUpdate>> \o @]
    ELSE update @@ [taskUpdates |-> <<taskUpdate>>]

(* C13: an update or complete that matches no task, by id or by name, is   *)
(* dropped: the entry leaves the task list unchanged, and the payload that *)
(* carries it is merged as the same payload without it would be (later     *)
(* task updates, progress, blockers, priorities, suggestedActions); the    *)
(* turn ends as a success: the render of the payload of the gateway that   *)
(* holds the dangling update of "Z" (the one payload that brings a         *)
(* blocker) leaves the tasks as they were, appends the reply and not the   *)
(* apology, and clears the loading flag.                                   *)
C13_DanglingDropped ==
    /\ [](project # Null =>
            \A tu \in DanglingProbes :
               /\ ApplyTaskUpdate(project.tasks, tu, generateId(issued + 1)) = project.tasks
               /\ \A update \in Updates(project) :
                     ApplyUpdate(project, WithFirstEntry(update, tu), issued) =
                        ApplyUpdate(project, update, issued))
    /\ [][(/\ Render
           /\ Len(queue) = 1
           /\ project # Null
           /\ project' # Null
           /\ Len(project'.blockers) > Len(project.blockers)) =>
              /\ project'.tasks = project.tasks
              /\ project'.priorities.speed = project.priorities.speed + 2
              /\ project'.suggestedActions = <<>>
              /\ chatHistory' = Append(chatHistory, [sender |-> "ai", text |-> "ok"])
              /\ isLoading' = FALSE]_vars

\* the payload with the dangling update of "Z" was merged: its blocker and its
\* speed are there, no task is "Z" or Blocked, and the turn ended with the reply
C13_Witness ==
    /\ project # Null
    /\ Len(project.blockers) = 1
    /\ project.priorities.speed = 2
    /\ "Z" \notin TaskNames(project)
    /\ \A i \in 1..Len(project.tasks) : project.tasks[i].status # "Blocked"
    /\ chatHistory[Len(chatHistory)] = AiMessage("ok")
    /\ ~isLoading

\* updates that carry a list of blockers: none, two, twice the same
BlockerProbes ==
    {[responseText |-> "ok", suggestedActions |-> <<>>, progressUpdate |-> 0,
      blockers |-> [i \in 1..Len(ds) |-> [description |-> ds[i]]]] :
        ds \in {<<>>, <<"b1", "b2">>, <<"b1", "b1">>}}

(* C14: a successful turn whose update carries N blocker descriptions      *)
(* makes the blocker list exactly N longer: the blockers there before stay *)
(* as an unchanged prefix and the new ones follow in input order with      *)
(* resolved = false; no step of a project, short of putting another        *)
(* project in its place, shrinks the list or changes a blocker, and no     *)
(* blocker is ever resolved.                                               *)
C14_BlockersAppendOnly ==
    /\ [](project # Null =>
            /\ \A i \in 1..Len(project.blockers) : project.blockers[i].resolved = FALSE
            /\ \A update \in Updates(project) \cup BlockerProbes :
                  LET old == project.blockers
                      N == IF "blockers" \in DOMAIN update THEN Len(update.blockers) ELSE 0
                      merged == ApplyUpdate(project, update, issued).blockers
                  IN /\ Len(merged) = Len(old) + N
                     /\ \A i \in 1..Len(old) : merged[i] = old[i]
                     /\ \A i \in 1..N :
                           /\ merged[Len(old) + i].description = update.blockers[i].description
                           /\ merged[Len(old) + i].resolved = FALSE)
    /\ [][(project # Null /\ project' # Null /\ ~ProjectReplaced) =>
              IsPrefix(project.blockers, project'.blockers)]_vars

\* two turns have each brought one blocker
C14_Witness ==
    /\ project # Null
    /\ Len(project.blockers) = 2
    /\ \A i \in 1..2 : /\ project.blockers[i].description = "blocked on api"
                        /\ project.blockers[i].resolved = FALSE
    /\ project.blockers[1].id # project.blockers[2].id

\* an update that carries nothing but the priorityUpdate `pu`
PriorityProbe(pu) ==
    [responseText |-> "ok", suggestedActions |-> <<>>, progressUpdate |-> 0,
     priorityUpdate |-> pu]

\* priorityUpdate objects: empty, one delta, both deltas, a zero
PriorityProbes ==
    {PriorityProbe(pu) : pu \in {<<>>, [speed |-> 2], [speed |-> -1], [scope |-> 3],
                                 [speed |-> 0, scope |-> -2]}}

(* C15: priorities accumulate: a successful turn with a priorityUpdate     *)
(* adds its speed and its scope delta, each 0 when omitted, to the totals; *)
(* a turn without priorityUpdate leaves both; so after the deltas +2 and   *)
(* then -1 speed stands at +1 over where it was; and over the turns of a   *)
(* run, where only the payload that brings one blocker moves speed, by +2, *)
(* speed is twice the number of blockers.                                  *)
C15_PrioritiesAccumulate ==
    project # Null =>
       /\ \A update \in Updates(project) \cup PriorityProbes :
             LET old == project.priorities
                 new == ApplyUpdate(project, update, issued).priorities
                 delta(key) == IF "priorityUpdate" \in DOMAIN update
                                  /\ key \in DOMAIN update.priorityUpdate
                               THEN update.priorityUpdate[key] ELSE 0
             IN /\ new.speed = old.speed + delta("speed")
                /\ new.scope = old.scope + delta("scope")
                /\ DOMAIN new = {"speed", "scope"}
       /\ LET first == ApplyUpdate(project, PriorityProbe([speed |-> 2]), issued)
              second == ApplyUpdate(first, PriorityProbe([speed |-> -1]), issued)
          IN second.priorities = [speed |-> project.priorities.speed + 1,
                                  scope |-> project.priorities.scope]
       /\ project.priorities.speed = 2 * Len(project.blockers)

\* one turn has moved speed and left scope, another has moved scope and left speed
C15_Witness ==
    /\ project # Null
    /\ project.priorities = [speed |-> 2, scope |-> -1]

\* updates that carry nothing but suggested actions: none, one, three
SuggestionProbes ==
    {[responseText |-> "ok", progressUpdate |-> 0, suggestedActions |-> sa] :
        sa \in {<<>>, <<"s1">>, <<"s1", "s2", "what next?">>}}

(* C16: after a successful turn the project's suggestedActions are exactly *)
(* those of the turn's update, an empty list clearing them; nothing of the *)
(* earlier turns is kept.  Stated of the merge of every update into every  *)
(* reachable project, and of every step that renders queued responses:     *)
(* the project then shows the suggestions of the last of them.             *)
C16_SuggestionsReplaced ==
    /\ [](project # Null =>
            \A update \in Updates(project) \cup SuggestionProbes :
               ApplyUpdate(project, update, issued).suggestedActions =
                  update.suggestedActions)
    /\ [][(Renders /\ IsTurn(queue[Len(queue)]) /\ project' # Null) =>
              project'.suggestedActions =
                 queue[Len(queue)].project.update.suggestedActions]_vars

\* the one suggestion given at creation was cleared by a turn that brought none
C16_Witness ==
    /\ project # Null
    /\ project.suggestedActions = <<>>
    /\ chatHistory[Len(chatHistory)] = AiMessage("ok")

(* C17: a successful project creation yields a project with progress 0,    *)
(* priorities {speed: 0, scope: 0}, no blockers and one task per initial   *)
(* task the gateway returned: 3 to 5 of them, in the gateway's order, each *)
(* with a fresh id, status 'Not Started' and no subtasks; and a chat       *)
(* history of exactly one ai message, the gateway's openingStatement.      *)
C17_CreationResult ==
    /\ [][\A i \in 1..Len(inflight) : \A result \in CreateAnswers(inflight[i]) :
             CreateSucceeds(i, result) =>
                LET initialTasks == result.project.initialTasks
                    batch == queue'[Len(queue')]
                    created == batch.project.value
                IN /\ created # Null
                   /\ created.progress = 0
                   /\ created.priorities = [speed |-> 0, scope |-> 0]
                   /\ created.blockers = <<>>
                   /\ Len(created.tasks) = Len(initialTasks)
                   /\ Len(created.tasks) \in 3..5
                   /\ \A k \in 1..Len(created.tasks) :
                         /\ created.tasks[k].name = initialTasks[k].name
                         /\ created.tasks[k].description = initialTasks[k].description
                         /\ created.tasks[k].status = "Not Started"
                         /\ created.tasks[k].subtasks = <<>>
                         /\ created.tasks[k].id \notin TaskIds(SampleProject)
                         /\ \A l \in 1..Len(created.tasks) :
                               created.tasks[k].id = created.tasks[l].id => k = l
                   /\ batch.chatHistory.value =
                         <<[sender |-> "ai", text |-> result.openingStatement]>>]_vars
    /\ [][(Render /\ Len(queue) = 1 /\ ProjectReplaced /\ Has(queue[1], "isLoading")) =>
              /\ project' = queue[1].project.value
              /\ chatHistory' = queue[1].chatHistory.value]_vars

(* C18: when the gateway call of project creation fails, no project is     *)
(* created: the failing call and the render that follows it leave the      *)
(* project in memory and both persisted keys as they were, so a project    *)
(* that was absent stays absent in memory and under the key 'project'; the *)
(* chat history is unchanged; and the loading flag is cleared: the flag is *)
(* up only while a call is in flight or its outcome awaits its render.     *)
C18_CreateFailureLeavesNothing ==
    /\ [](isLoading => (inflight # <<>> \/ queue # <<>>))
    /\ [][\A i \in 1..Len(inflight) :
             CreateFails(i) =>
                /\ project' = project
                /\ storage' = storage
                /\ chatHistory' = chatHistory]_vars
    /\ [][(Render /\ queue = <<[isLoading |-> FALSE]>>) =>
              /\ project' = project
              /\ storage' = storage
              /\ chatHistory' = chatHistory
              /\ isLoading' = FALSE
              /\ project = Null => (project' = Null /\ storage'.project = Absent)]_vars

\* the retry after a failed creation: no project, nothing stored, no identifier
\* handed out, the second request awaiting its answer
C18_Witness ==
    /\ booted
    /\ project = Null
    /\ chatHistory = <<>>
    /\ storage = EmptyStorage
    /\ issued = 0
    /\ requests = 2
    /\ Len(inflight) = 1
    /\ inflight[1].kind = "createProject"

(* C19: marking a task as Completed by the button changes no task's status *)
(* and no other project field: the step leaves the project as the updates  *)
(* already queued make it (with none queued, the project and its persisted *)
(* copy as they were), appends the one user message "I have just completed *)
(* the task: ..." and starts a next-step call with that message; the tasks *)
(* of a project change only in a step that renders a queued response of    *)
(* the gateway.                                                            *)
C19_MarkCompletedOnlySends ==
    /\ [][\A k \in TaskPositions :
             MarkCompleted(k) =>
                LET text == "I have just completed the task: \"" \o project.tasks[k].name
                               \o "\"."
                IN /\ project' = ApplyBatches(queue, Rendered).project
                   /\ queue = <<>> => project' = project
                   /\ (queue = <<>> /\ ~effects.project) =>
                         storage'.project = storage.project
                   /\ chatHistory' = Append(chatHistory, [sender |-> "user", text |-> text])
                   /\ Len(inflight') = Len(inflight) + 1
                   /\ SubSeq(inflight', 1, Len(inflight)) = inflight
                   /\ inflight'[Len(inflight')].kind = "nextStep"
                   /\ inflight'[Len(inflight')].message = text]_vars
    /\ [][(/\ project # Null
           /\ project' # Null
           /\ project'.tasks # project.tasks
           /\ ~ProjectReplaced) =>
              /\ Renders
              /\ \E j \in 1..Len(queue) : IsTurn(queue[j])]_vars

\* the button was pressed on "A", the call failed, and "A" is as it was
C19_Witness ==
    /\ project # Null
    /\ Len(chatHistory) >= 2
    /\ chatHistory[Len(chatHistory) - 1] = UserMessage(CompletedText("A"))
    /\ chatHistory[Len(chatHistory)] = AiMessage(Apology)
    /\ \E i \in 1..Len(project.tasks) :
          project.tasks[i].name = "A" /\ project.tasks[i].status = "Not Started"

(* C20: if every gateway call eventually returns, every accepted send      *)
(* brings the loading flag back to false; the step that issues a next-step *)
(* call appends the user's message and raises the flag, and the turn ends  *)
(* with exactly one ai message appended, the gateway's responseText on     *)
(* success and the apology on failure, and the flag cleared: so in the     *)
(* step that renders what the returned call queued, a reset apart.         *)
C20_TurnReturnsToIdle ==
    /\ isLoading ~> ~isLoading
    /\ [][(/\ Len(inflight') = Len(inflight) + 1
           /\ inflight'[Len(inflight')].kind = "nextStep") =>
              /\ chatHistory' = Append(chatHistory,
                                       [sender |-> "user",
                                        text |-> inflight'[Len(inflight')].message])
              /\ isLoading' = TRUE]_vars
    /\ [][(Renders /\ Len(queue) = 1 /\ Has(queue[1], "call") /\ ~handleReset) =>
              /\ chatHistory' = Append(chatHistory, queue[1].chatHistory.message)
              /\ queue[1].chatHistory.message.sender = "ai"
              /\ isLoading' = FALSE]_vars

\* the fields of a Project that no update names
FixedFields ==
    {"projectName", "projectType", "projectGoals", "stakeholders", "timeline", "resources"}

(* C21: a successful turn whose update carries no taskUpdates, no blockers *)
(* and no priorityUpdate leaves tasks, blockers and priorities unchanged;  *)
(* and every successful turn, whatever its payload, leaves projectName,    *)
(* projectType, projectGoals, stakeholders, timeline and resources         *)
(* unchanged.  Stated of the merge of every update into every reachable    *)
(* project, and of every step from one value of a project to another.      *)
C21_AbsentMeansUnchanged ==
    /\ [](project # Null =>
            \A update \in Updates(project) \cup ProgressProbes \cup SuggestionProbes
                             \cup BlockerProbes \cup PriorityProbes :
               LET merged == ApplyUpdate(project, update, issued)
               IN /\ \A f \in FixedFields : merged[f] = project[f]
                  /\ DOMAIN merged = DOMAIN project
                  /\ "taskUpdates" \notin DOMAIN update => merged.tasks = project.tasks
                  /\ "blockers" \notin DOMAIN update => merged.blockers = project.blockers
                  /\ "priorityUpdate" \notin DOMAIN update =>
                        merged.priorities = project.priorities)
    /\ [][(project # Null /\ project' # Null /\ ~ProjectReplaced) =>
              \A f \in FixedFields : project'[f] = project[f]]_vars

\* a turn that brought only a reply and an empty list of suggestions was merged
\* into the project as it was created
C21_Witness ==
    /\ project # Null
    /\ project.suggestedActions = <<>>
    /\ project.progress = 0
    /\ project.priorities = [speed |-> 0, scope |-> 0]
    /\ project.blockers = <<>>
    /\ TaskNames(project) = {"A"}
    /\ \A i \in 1..Len(project.tasks) : project.tasks[i].status = "Not Started"
    /\ project.projectName = "Recipe App"
    /\ project.timeline = [startDate |-> "now", targetDate |-> ""]
    /\ chatHistory[Len(chatHistory)] = AiMessage("ok")

\* the positions of the tasks of a list that bear a name
Named(tasks, name) == {i \in 1..Len(tasks) : tasks[i].name = name}

(* C22: the taskUpdates of one payload are applied one after the other in  *)
(* the given order, each resolved against the list the earlier ones left:  *)
(* a pair of entries gives what the second gives on the result of the      *)
(* first; two adds of one new name create one task; an update after an add *)
(* of the same name patches the added task; an update after the remove of  *)
(* the only task of its name changes nothing more.                         *)
C22_EntriesInOrder ==
    project # Null =>
       LET tasks == project.tasks
           id1 == generateId(issued + 1)
           id2 == generateId(issued + 2)
           add == [action |-> "add", name |-> "N"]
           patch == [action |-> "update", name |-> "N", description |-> "dn",
                     status |-> "In Progress"]
           twoAdds == ApplyTaskUpdates(tasks, <<add, add>>, issued)
           addPatch == ApplyTaskUpdates(tasks, <<add, patch>>, issued)
           removes == {[action |-> "remove", name |-> nm] : nm \in TaskNames(project)}
           updates == {[action |-> "update", name |-> nm, status |-> "Blocked"] :
                          nm \in TaskNames(project)}
       IN /\ \A first \in {add} \cup removes : \A second \in {add, patch} \cup updates :
                ApplyTaskUpdates(tasks, <<first, second>>, issued).tasks =
                   ApplyTaskUpdate(ApplyTaskUpdate(tasks, first, id1), second,
                                   IF Len(ApplyTaskUpdate(tasks, first, id1)) > Len(tasks)
                                   THEN id2 ELSE id1)
          /\ Len(twoAdds.tasks) = Len(tasks) + 1
          /\ SubSeq(twoAdds.tasks, 1, Len(tasks)) = tasks
          /\ twoAdds.tasks[Len(tasks) + 1] =
                [id |-> id1, name |-> "N", description |-> "", status |-> "Not Started",
                 subtasks |-> <<>>]
          /\ twoAdds.n = issued + 1
          /\ Len(addPatch.tasks) = Len(tasks) + 1
          /\ SubSeq(addPatch.tasks, 1, Len(tasks)) = tasks
          /\ addPatch.tasks[Len(tasks) + 1] =
                [id |-> id1, name |-> "N", description |-> "dn", status |-> "In Progress",
                 subtasks |-> <<>>]
          /\ \A i \in 1..Len(tasks) :
                LET name == tasks[i].name
                    remove == [action |-> "remove", name |-> name]
                    after == [action |-> "update", name |-> name, status |-> "Blocked"]
                    both == ApplyTaskUpdates(tasks, <<remove, after>>, issued).tasks
                IN Named(tasks, name) = {i} =>
                      /\ Len(both) = Len(tasks) - 1
                      /\ \A k \in 1..Len(both) :
                            both[k] = IF k < i THEN tasks[k] ELSE tasks[k + 1]

\* the payload that adds "D" twice, updates it, adds "B", removes it and then
\* updates it was merged: one "D", with the description of the update, no "B",
\* none Blocked
C22_Witness ==
    /\ project # Null
    /\ Cardinality(Named(project.tasks, "D")) = 1
    /\ \A i \in Named(project.tasks, "D") : project.tasks[i].description = "dd"
    /\ Named(project.tasks, "B") = {}
    /\ \A i \in 1..Len(project.tasks) : project.tasks[i].status # "Blocked"

(* C23: every next-step response is merged into the project value that was *)
(* sent to the gateway as the snapshot of its request: whenever a response *)
(* is merged into a project, that project is the snapshot of the request   *)
(* (nothing has changed it since, and it is not a project created after a  *)
(* reset that followed the request).                                       *)
C23_MergedIntoSnapshot ==
    [][(Renders /\ IsTurn(queue[1]) /\ project # Null) =>
          project = queue[1].call.snapshot]_vars

(* C24: in every reachable state, once the effects of the first render     *)
(* have run, whenever no project exists in memory the chat history is      *)
(* empty and the key 'chatHistory' is absent: no chat message exists       *)
(* without a project, also after a reset made while a gateway call was in  *)
(* flight and after start-up from storage.                                 *)
C24_NoChatWithoutProject ==
    (booted /\ project = Null) =>
       /\ chatHistory = <<>>
       /\ storage.chatHistory = Absent

(* C25: once the persistence effects of a state change have run, the       *)
(* persisted copy mirrors memory: the key 'project' holds the project in   *)
(* memory and is absent exactly when there is none, the key 'chatHistory'  *)
(* holds the chat history in memory and is absent exactly when it is       *)
(* empty; so after every transition: load, creation, send, success,        *)
(* failure, reset.                                                         *)
C25_StorageMirrorsMemory ==
    (booted /\ effects = NoEffects) =>
       /\ storage.project = IF project = Null
                            THEN [kind |-> "absent"]
                            ELSE [kind |-> "json", doc |-> project]
       /\ storage.chatHistory = IF chatHistory = <<>>
                                THEN [kind |-> "absent"]
                                ELSE [kind |-> "json", doc |-> chatHistory]

\* after a merge and its reply: the stored project carries the merged progress and
\* the stored history the reply
C25_Witness ==
    /\ booted
    /\ project # Null
    /\ project.progress = 60
    /\ storage.project.kind = "json"
    /\ storage.project.doc.progress = 60
    /\ Len(chatHistory) >= 3
    /\ storage.chatHistory.kind = "json"
    /\ storage.chatHistory.doc[Len(chatHistory)] = AiMessage("ok")

====
